---------------------------- MODULE Spec2Model ----------------------------
(* A model of the MONCoind RPC client (lib/moncoind-rpc.js): every public   *)
(* operation's argument validation and request construction, the transport  *)
(* settling the request, and the promise handlers (_post's envelope check   *)
(* and each operation's own response rule) that produce the caller's        *)
(* outcome.  Spec runs one call at a time on a constructed client; CtorSpec *)
(* is the constructor alone, ConcSpec several calls in flight on one client *)
(* and HexSpec the hexadecimal conversion of blocksLite.                    *)
EXTENDS Integers, Sequences, FiniteSets, TLC

VARIABLES
    pc,        \* position of the current call: idle, pending, responded, posted, done
    op,        \* name of the operation being called
    args,      \* the arguments the caller passed
    requests,  \* the transport requests issued for the current call, in order
    raw,       \* settlement of the transport's promise
    mid,       \* settlement of the promise returned by _post (RPC operations)
    outcome,   \* what the caller gets: thrown, fulfilled or rejected
    rawAfter,  \* the transport's response object after the handlers ran
    bytes,     \* HexSpec: the byte array under conversion
    hexOut,    \* HexSpec: the items blocksLite produced for it
    ctorOpts,  \* the options the client was constructed with
    config,    \* the client object's own fields (this.host, this.port, ...)
    calls,     \* ConcSpec: the state of each caller's call on the one client
    delivered  \* ConcSpec: the callers in the order the transport answered them

\* the client object, and the calls in flight on it in ConcSpec
clientVars == <<ctorOpts, config>>
concVars == <<calls, delivered>>

vars ==
    <<pc, op, args, requests, raw, mid, outcome, rawAfter, bytes, hexOut,
      clientVars, concVars>>

-----------------------------------------------------------------------------
(* Bounds of the model *)

\* longest list of items, transactions or added transactions in a response
MaxLen == 2
\* longest byte array drawn from ByteSamples in HexSpec
MaxBytes == 3

-----------------------------------------------------------------------------
(* JavaScript values *)

Undef == [t |-> "undefined"]
Null == [t |-> "null"]
Num(n) == [t |-> "number", n |-> n]
Str(s) == [t |-> "string", s |-> s]
Bool(b) == [t |-> "boolean", b |-> b]
Arr(a) == [t |-> "array", a |-> a]
Obj(o) == [t |-> "object", o |-> o]
EmptyObj == Obj([k \in {} |-> Undef])

\* ToBoolean, as used by !x, x && y, x || y and if (x)
Truthy(v) ==
    CASE v.t = "undefined" -> FALSE
      [] v.t = "null" -> FALSE
      [] v.t = "NaN" -> FALSE
      [] v.t = "boolean" -> v.b
      [] v.t = "number" -> v.n # 0
      [] v.t = "string" -> v.s # ""
      [] OTHER -> TRUE

IsArray(v) == v.t = "array"
IsUndefined(v) == v.t = "undefined"

\* own-property test and property read on an object value
Has(v, k) == v.t = "object" /\ k \in DOMAIN v.o
Get(v, k) == IF Has(v, k) THEN v.o[k] ELSE Undef
Keys(v) == DOMAIN v.o
\* assignment v[k] = x and delete v[k]
Put(v, k, x) == Obj([j \in DOMAIN v.o \cup {k} |-> IF j = k THEN x ELSE v.o[j]])
Delete(v, k) == Obj([j \in DOMAIN v.o \ {k} |-> v.o[j]])

\* the sequences of length at most n over S
SeqUpTo(S, n) == UNION {[1..k -> S] : k \in 0..n}

\* errors: new Error(message), and the TypeError the runtime raises when a
\* property is read from undefined
Error(m) == [name |-> "Error", message |-> m]
TypeError(m) == [name |-> "TypeError", message |-> m]
\* a failure raised by the transport collaborator (request-promise-native)
NetworkError == [name |-> "RequestError", message |-> "ETIMEDOUT"]
\* the failures the transport can reject a request with
NetworkErrors ==
    {NetworkError,
     [name |-> "RequestError", message |-> "ECONNREFUSED"],
     [name |-> "StatusCodeError", message |-> "500"]}

\* promise settlements
Pending == [state |-> "pending"]
Fulfilled(v) == [state |-> "fulfilled", value |-> v]
Rejected(e) == [state |-> "rejected", error |-> e]
\* a synchronous throw out of the operation, before any promise exists
Thrown(e) == [state |-> "thrown", error |-> e]

-----------------------------------------------------------------------------
(* Strings and numbers, computed character by character *)

Char(s, i) == SubSeq(s, i, i)
UpperChars == "ABCDEFGHIJKLMNOPQRSTUVWXYZ"
LowerChars == "abcdefghijklmnopqrstuvwxyz"
DecDigits == "0123456789"
HexDigits == "0123456789abcdef"

\* String.prototype.toLowerCase on one character and on a string
LowerChar(c) ==
    IF \E i \in 1..Len(UpperChars) : Char(UpperChars, i) = c
    THEN Char(LowerChars, CHOOSE i \in 1..Len(UpperChars) : Char(UpperChars, i) = c)
    ELSE c

RECURSIVE toLowerCase(_)
toLowerCase(s) ==
    IF Len(s) = 0 THEN ""
    ELSE LowerChar(Char(s, 1)) \o toLowerCase(SubSeq(s, 2, Len(s)))

\* NaN, the result of a failed numeric conversion
NaN == [t |-> "NaN"]
IsNaNValue(v) == v.t = "NaN"

IsDigit(c) == \E i \in 1..Len(DecDigits) : Char(DecDigits, i) = c
DigitVal(c) == (CHOOSE i \in 1..Len(DecDigits) : Char(DecDigits, i) = c) - 1

\* the number of leading decimal digits of s
RECURSIVE DigitPrefixLen(_)
DigitPrefixLen(s) ==
    IF Len(s) = 0 \/ ~IsDigit(Char(s, 1)) THEN 0
    ELSE 1 + DigitPrefixLen(SubSeq(s, 2, Len(s)))

\* the value of a string of decimal digits
RECURSIVE DigitsVal(_)
DigitsVal(s) ==
    IF Len(s) = 0 THEN 0
    ELSE 10 * DigitsVal(SubSeq(s, 1, Len(s) - 1)) + DigitVal(Char(s, Len(s)))

RECURSIVE TrimLeft(_)
TrimLeft(s) ==
    IF Len(s) > 0 /\ Char(s, 1) = " " THEN TrimLeft(SubSeq(s, 2, Len(s))) ELSE s

RECURSIVE TrimRight(_)
TrimRight(s) ==
    IF Len(s) > 0 /\ Char(s, Len(s)) = " " THEN TrimRight(SubSeq(s, 1, Len(s) - 1)) ELSE s

\* an optional sign followed by the longest run of decimal digits; the rest
\* of the string is what follows the digits (radix prefixes such as 0x are
\* not among the strings the model draws)
SignOf(s) == IF Len(s) > 0 /\ Char(s, 1) = "-" THEN -1 ELSE 1
Unsigned(s) ==
    IF Len(s) > 0 /\ Char(s, 1) \in {"-", "+"} THEN SubSeq(s, 2, Len(s)) ELSE s

\* the global parseInt(v): v is converted to a string, leading blanks are
\* skipped and the longest numeric prefix is read
RECURSIVE parseInt(_)
parseInt(v) ==
    CASE v.t = "number" -> v
      [] v.t = "string" ->
            LET u == Unsigned(TrimLeft(v.s))
                n == DigitPrefixLen(u)
            IN  IF n = 0 THEN NaN
                ELSE Num(SignOf(TrimLeft(v.s)) * DigitsVal(SubSeq(u, 1, n)))
      [] v.t = "array" -> IF Len(v.a) = 0 THEN NaN ELSE parseInt(v.a[1])
      [] OTHER -> NaN

\* ToNumber(v), the conversion isNaN and Math.abs apply to their argument
ToNumber(v) ==
    CASE v.t = "number" -> v
      [] v.t = "string" ->
            LET w == TrimRight(TrimLeft(v.s))
                u == Unsigned(w)
            IN  IF Len(w) = 0 THEN Num(0)
                ELSE IF Len(u) > 0 /\ DigitPrefixLen(u) = Len(u)
                     THEN Num(SignOf(w) * DigitsVal(u))
                     ELSE NaN
      [] v.t = "null" -> Num(0)
      [] v.t = "boolean" -> IF v.b THEN Num(1) ELSE Num(0)
      [] OTHER -> NaN

isNaN(v) == IsNaNValue(ToNumber(v))
MathAbs(v) ==
    LET x == ToNumber(v)
    IN  IF IsNaNValue(x) THEN NaN ELSE IF x.n < 0 THEN Num(-x.n) ELSE x

\* Buffer.from(array).toString('hex'): every entry is taken modulo 256 and
\* written as two hexadecimal digits
HexChar(n) == Char(HexDigits, n + 1)
\* a byte written without its leading zero, as Number.prototype.toString(16) does
ByteHexUnpadded(b) ==
    IF b % 256 < 16 THEN HexChar(b % 256)
    ELSE HexChar((b % 256) \div 16) \o HexChar((b % 256) % 16)
ByteHex(b) == HexChar((b % 256) \div 16) \o HexChar((b % 256) % 16)

RECURSIVE BufferToHex(_)
BufferToHex(a) ==
    IF Len(a) = 0 THEN ""
    ELSE ByteHex(a[1].n) \o BufferToHex(Tail(a))

-----------------------------------------------------------------------------
(* The request helpers.  The synchronous part of an operation either throws  *)
(* or hands one request to the transport.                                    *)

\* the decimal digits of a natural number
RECURSIVE NatToStr(_)
NatToStr(n) ==
    IF n < 10 THEN Char(DecDigits, n + 1)
    ELSE NatToStr(n \div 10) \o Char(DecDigits, (n % 10) + 1)

\* what util.format puts in the place of a %s
FormatS(v) ==
    CASE v.t = "string" -> v.s
      [] v.t = "number" -> IF v.n < 0 THEN "-" \o NatToStr(-v.n) ELSE NatToStr(v.n)
      [] v.t = "boolean" -> IF v.b THEN "true" ELSE "false"
      [] v.t = "null" -> "null"
      [] OTHER -> "undefined"

\* opts = opts || {}
OrEmpty(opts) == IF Truthy(opts) THEN opts ELSE EmptyObj
\* if (x === undefined) x = d
OrDefault(x, d) == IF IsUndefined(x) THEN d ELSE x
\* x || d
Or(x, d) == IF Truthy(x) THEN x ELSE d

\* package.json's name and version, from which the default user agent is made
packageInfo == [name |-> "moncoin-rpc", version |-> "0.1.0"]

\* the fields of the client object when the constructor returns
constructor(opts) ==
    LET o == OrEmpty(opts)
    IN  Obj([host |-> Or(Get(o, "host"), Str("127.0.0.1")),
             port |-> Or(Get(o, "port"), Num(12898)),
             timeout |-> Or(Get(o, "timeout"), Num(2000)),
             ssl |-> Or(Get(o, "ssl"), Bool(FALSE)),
             userAgent |-> Or(Get(o, "userAgent"),
                              Str(packageInfo.name \o "/" \o packageInfo.version)),
             keepAlive |-> IF ~IsUndefined(Get(o, "keepAlive")) THEN Get(o, "keepAlive")
                           ELSE Bool(TRUE)])

\* util.format('%s://%s:%s/%s', protocol, this.host, this.port, method)
Uri(method) ==
    (IF Truthy(Get(config, "ssl")) THEN "https" ELSE "http") \o "://"
        \o FormatS(Get(config, "host")) \o ":" \o FormatS(Get(config, "port"))
        \o "/" \o method

\* request({uri, method, body, json, timeout, forever, headers}); a GET has
\* no body
Issue(verb, path, body) ==
    [state |-> "issued",
     request |-> [uri |-> Uri(path),
                  method |-> verb,
                  body |-> body,
                  json |-> TRUE,
                  timeout |-> Get(config, "timeout"),
                  forever |-> Get(config, "keepAlive"),
                  headers |-> [UserAgent |-> Get(config, "userAgent")]]]

\* _get(method)
get(method) ==
    IF Len(method) = 0 THEN Thrown(Error("no method supplied"))
    ELSE Issue("GET", method, Undef)

\* _rawPost(endpoint, body); `throw new new Error(..)()` raises a TypeError
rawPost(endpoint, body) ==
    IF Len(endpoint) = 0 THEN Thrown(TypeError("(intermediate value) is not a constructor"))
    ELSE IF IsUndefined(body) THEN Thrown(TypeError("(intermediate value) is not a constructor"))
    ELSE Issue("POST", endpoint, body)

\* _post(method, params), up to the call of _rawPost
post(method, params) ==
    IF Len(method) = 0 THEN Thrown(Error("no method supplied"))
    ELSE rawPost("json_rpc",
                 Obj([jsonrpc |-> Str("2.0"),
                      method |-> Str(method),
                      params |-> IF Truthy(params) THEN params ELSE EmptyObj]))

-----------------------------------------------------------------------------
(* The operations: argument validation and request construction *)

block(hash) ==
    IF ~Truthy(hash) THEN Thrown(Error("must specify hash"))
    ELSE post("f_block_json", Obj([hash |-> hash]))

blockCount == post("getblockcount", Undef)

blockHeaderByHash(hash) ==
    IF ~Truthy(hash) THEN Thrown(Error("must specify hash"))
    ELSE post("getblockheaderbyhash", Obj([hash |-> hash]))

blockHeaderByHeight(height) ==
    IF IsUndefined(height) THEN Thrown(Error("must specify height"))
    ELSE post("getblockheaderbyheight", Obj([height |-> height]))

blockShortHeaders(height) ==
    IF IsUndefined(height) THEN Thrown(Error("must specify height"))
    ELSE post("f_blocks_list_json", Obj([height |-> height]))

blocksDetailed(opts) ==
    LET o == OrEmpty(opts)
    IN  IF ~IsArray(Get(o, "blockHashes"))
        THEN Thrown(Error("must supply an array of block hashes"))
        ELSE rawPost("queryblocksdetailed",
                     Obj([blockIds |-> Get(o, "blockHashes"),
                          timestamp |-> OrDefault(Get(o, "timestamp"), Num(0)),
                          blockCount |-> OrDefault(Get(o, "blockCount"), Num(100))]))

blocksLite(opts) ==
    LET o == OrEmpty(opts)
    IN  IF ~IsArray(Get(o, "blockHashes"))
        THEN Thrown(Error("must supply an array of block hashes"))
        ELSE rawPost("queryblockslite",
                     Obj([blockIds |-> Get(o, "blockHashes"),
                          timestamp |-> OrDefault(Get(o, "timestamp"), Num(0))]))

blockTemplate(walletAddress, reserveSize) ==
    IF IsUndefined(reserveSize) THEN Thrown(Error("must specify reserveSize"))
    ELSE IF ~Truthy(walletAddress) THEN Thrown(Error("must specify walletAddress"))
    ELSE post("getblocktemplate",
              Obj([reserve_size |-> reserveSize, wallet_address |-> walletAddress]))

fee == get("fee")

globalIndexes(transactionHash) ==
    IF IsUndefined(transactionHash) THEN Thrown(Error("must supply a transaction hash"))
    ELSE rawPost("get_o_indexes", Obj([txid |-> transactionHash]))

globalIndexesForRange(startHeight, endHeight) ==
    IF IsUndefined(startHeight) THEN Thrown(Error("Must specify start height"))
    ELSE IF IsUndefined(endHeight) THEN Thrown(Error("Must specify end height"))
    ELSE rawPost("get_global_indexes_for_range",
                 Obj([startHeight |-> startHeight, endHeight |-> endHeight]))

height == get("height")

info == get("info")

lastBlockHeader == post("getlastblockheader", Undef)

peers == get("peers")

\* poolChanges without the Array.isArray check of its second argument
poolChangesUnchecked(tailBlockHash, knownTransactionHashes) ==
    IF IsUndefined(tailBlockHash) THEN Thrown(Error("must supply a tail block hash"))
    ELSE rawPost("get_pool_changes_lite",
                 Obj([tailBlockId |-> tailBlockHash, knownTxsIds |-> knownTransactionHashes]))

poolChanges(tailBlockHash, knownTransactionHashes) ==
    IF IsUndefined(tailBlockHash) THEN Thrown(Error("must supply a tail block hash"))
    ELSE IF ~IsArray(knownTransactionHashes)
    THEN Thrown(Error("must supply an array of known transaction hashes"))
    ELSE rawPost("get_pool_changes_lite",
                 Obj([tailBlockId |-> tailBlockHash, knownTxsIds |-> knownTransactionHashes]))

randomOutputs(amounts, mixin) ==
    IF ~IsArray(amounts) THEN Thrown(Error("must supply an array of amounts"))
    ELSE IF IsUndefined(mixin) THEN Thrown(Error("must supply a mixin value"))
    ELSE IF IsNaNValue(parseInt(mixin)) THEN Thrown(Error("must supply a valid mixin value"))
    ELSE rawPost("getrandom_outs",
                 Obj([amounts |-> amounts, outs_count |-> parseInt(mixin)]))

rawBlocks(blockHashes, blockCount_) ==
    IF ~IsArray(blockHashes) THEN Thrown(Error("must supply an array of block hashes"))
    ELSE IF Truthy(blockCount_) /\ isNaN(blockCount_)
    THEN Thrown(Error("block count must be a number"))
    ELSE rawPost("getblocks",
                 IF Truthy(blockCount_)
                 THEN Obj([block_ids |-> blockHashes, blockCount |-> MathAbs(blockCount_)])
                 ELSE Obj([block_ids |-> blockHashes]))

\* sendRawTransaction sent as a JSON-RPC method
sendRawTransactionEnveloped(transaction_) ==
    IF ~Truthy(transaction_) THEN Thrown(Error("must specify raw serialized transaction"))
    ELSE post("sendrawtransaction", Obj([tx_as_hex |-> transaction_]))

sendRawTransaction(transaction_) ==
    IF ~Truthy(transaction_) THEN Thrown(Error("must specify raw serialized transaction"))
    ELSE rawPost("sendrawtransaction", Obj([tx_as_hex |-> transaction_]))

submitBlock(blockBlob) ==
    IF ~Truthy(blockBlob) THEN Thrown(Error("must specify blockBlob"))
    ELSE post("submitblock", Arr(<<blockBlob>>))

transaction(hash) ==
    IF ~Truthy(hash) THEN Thrown(Error("must specify hash"))
    ELSE post("f_transaction_json", Obj([hash |-> hash]))

transactionPool == post("f_on_transactions_pool_json", Undef)

transactionsStatus(transactionHashes) ==
    IF ~IsArray(transactionHashes) THEN Thrown(Error("Must specify transaction hashes"))
    ELSE rawPost("get_transactions_status", Obj([transactionHashes |-> transactionHashes]))

\* walletSyncData filling startTimestamp from the start height
walletSyncDataHeightAsTimestamp(opts) ==
    LET o == OrEmpty(opts)
    IN  rawPost("getwalletsyncdata",
                Obj([startHeight |-> OrDefault(Get(o, "startHeight"), Num(0)),
                     startTimestamp |-> OrDefault(Get(o, "startHeight"), Num(0)),
                     blockHashCheckpoints |->
                         IF ~Truthy(Get(o, "blockHashCheckpoints")) THEN Arr(<<>>)
                         ELSE Get(o, "blockHashCheckpoints"),
                     skipCoinbaseTransactions |->
                         OrDefault(Get(o, "skipCoinbaseTransactions"), Bool(FALSE))]))

walletSyncData(opts) ==
    LET o == OrEmpty(opts)
    IN  rawPost("getwalletsyncdata",
                Obj([startHeight |-> OrDefault(Get(o, "startHeight"), Num(0)),
                     startTimestamp |-> OrDefault(Get(o, "startTimestamp"), Num(0)),
                     blockHashCheckpoints |->
                         IF ~Truthy(Get(o, "blockHashCheckpoints")) THEN Arr(<<>>)
                         ELSE Get(o, "blockHashCheckpoints"),
                     skipCoinbaseTransactions |->
                         OrDefault(Get(o, "skipCoinbaseTransactions"), Bool(FALSE))]))

-----------------------------------------------------------------------------
(* The promise handlers.  A handler takes the value its promise was          *)
(* fulfilled with and yields the settlement of the promise it feeds (out)    *)
(* and the state of the object it was handed once it has run (resp).         *)

Handled(out, resp) == [out |-> out, resp |-> resp]
IsNullish(v) == v.t \in {"undefined", "null"}
CannotRead(k) == TypeError("Cannot read property '" \o k \o "' of undefined")

\* new Error(message): an undefined message gives the empty message (the
\* model draws string messages only)
NewError(v) == Error(IF v.t = "string" THEN v.s ELSE "")

\* response => response.<k>
Field(response, k) ==
    IF IsNullish(response) THEN Handled(Rejected(CannotRead(k)), response)
    ELSE Handled(Fulfilled(Get(response, k)), response)

\* _post's handler without the check of the error member
postThenUnchecked(response) ==
    Handled(Fulfilled(Get(response, "result")), response)

\* the handler _post attaches to _rawPost's promise
postThen(response) ==
    IF IsNullish(response) THEN Handled(Rejected(CannotRead("error")), response)
    ELSE IF Truthy(Get(response, "error"))
    THEN Handled(Rejected(NewError(Get(Get(response, "error"), "message"))), response)
    ELSE Handled(Fulfilled(Get(response, "result")), response)

blockThen(response) == Field(response, "block")

\* blockCount's handler returning the whole result
blockCountThenWhole(response) == Handled(Fulfilled(response), response)

blockCountThen(response) == Field(response, "count")

blockHeaderByHashThen(response) == Field(response, "block_head")

blockHeaderByHeightThen(response) == Field(response, "block_header")

blockShortHeadersThen(response) == Field(response, "blocks")

lastBlockHeaderThen(response) == Field(response, "block_header")

transactionPoolThen(response) == Field(response, "transactions")

\* txn => ({hash: txn['transactionPrefixInfo.txHash'], prefix: txn['transactionPrefixInfo.txPrefix']})
PrefixRecord(txn) ==
    Obj([hash |-> Get(txn, "transactionPrefixInfo.txHash"),
         prefix |-> Get(txn, "transactionPrefixInfo.txPrefix")])

\* the body of blocksLite's items.forEach callback: the record pushed for one item
LiteItem(item) ==
    Obj([block |-> Str(BufferToHex(Get(item, "blockShortInfo.block").a)),
         hash |-> Get(item, "blockShortInfo.blockId"),
         transactions |->
             Arr([i \in 1..Len(Get(item, "blockShortInfo.txPrefixes").a) |->
                     PrefixRecord(Get(item, "blockShortInfo.txPrefixes").a[i])])])

\* an item the forEach callback can process without a TypeError
ItemOk(item) ==
    /\ IsArray(Get(item, "blockShortInfo.txPrefixes"))
    /\ IsArray(Get(item, "blockShortInfo.block"))

blocksLiteThen(response) ==
    IF ~IsArray(Get(response, "items"))
    THEN Handled(Rejected(CannotRead("forEach")), response)
    ELSE IF \E i \in 1..Len(Get(response, "items").a) : ~ItemOk(Get(response, "items").a[i])
    THEN Handled(Rejected(CannotRead("forEach")), response)
    ELSE LET tmp == Arr([i \in 1..Len(Get(response, "items").a) |->
                            LiteItem(Get(response, "items").a[i])])
             after == Put(response, "items", tmp)
         IN  Handled(Fulfilled(after), after)

globalIndexesThen(response) ==
    IF Get(response, "status").t # "string"
    THEN Handled(Rejected(CannotRead("toLowerCase")), response)
    ELSE IF toLowerCase(Get(response, "status").s) # "ok"
    THEN Handled(Rejected(Error("Transaction not found")), response)
    ELSE Handled(Fulfilled(Get(response, "o_indexes")), response)

\* globalIndexesForRange's handler comparing the status without toLowerCase
globalIndexesForRangeThenCased(response) ==
    IF ~Truthy(Get(response, "status")) \/ ~Truthy(Get(response, "indexes"))
    THEN Handled(Rejected(Error("Missing indexes or status key")), response)
    ELSE IF Get(response, "status").s # "ok"
    THEN Handled(Rejected(Error("Status is not OK")), response)
    ELSE Handled(Fulfilled(Get(response, "indexes")), response)

globalIndexesForRangeThen(response) ==
    IF ~Truthy(Get(response, "status")) \/ ~Truthy(Get(response, "indexes"))
    THEN Handled(Rejected(Error("Missing indexes or status key")), response)
    ELSE IF Get(response, "status").t # "string"
    THEN Handled(Rejected(TypeError("response.status.toLowerCase is not a function")), response)
    ELSE IF toLowerCase(Get(response, "status").s) # "ok"
    THEN Handled(Rejected(Error("Status is not OK")), response)
    ELSE Handled(Fulfilled(Get(response, "indexes")), response)

\* poolChanges' handler putting each record in front of the ones before it
poolChangesThenReversed(response) ==
    IF ~IsArray(Get(response, "addedTxs"))
    THEN Handled(Rejected(CannotRead("forEach")), response)
    ELSE LET n == Len(Get(response, "addedTxs").a)
             tmp == Arr([i \in 1..n |-> PrefixRecord(Get(response, "addedTxs").a[n + 1 - i])])
             after == Put(response, "addedTxs", tmp)
         IN  Handled(Fulfilled(after), after)

poolChangesThen(response) ==
    IF ~IsArray(Get(response, "addedTxs"))
    THEN Handled(Rejected(CannotRead("forEach")), response)
    ELSE LET tmp == Arr([i \in 1..Len(Get(response, "addedTxs").a) |->
                            PrefixRecord(Get(response, "addedTxs").a[i])])
             after == Put(response, "addedTxs", tmp)
         IN  Handled(Fulfilled(after), after)

\* rawBlocks' handler reading the status from the undotted key
rawBlocksThenPlainStatus(response) ==
    Handled(Fulfilled(Obj([blocks |-> Get(response, "response.blocks"),
                           current_height |-> Get(response, "response.current_height"),
                           start_height |-> Get(response, "response.start_height"),
                           status |-> Get(response, "status")])),
            response)

rawBlocksThen(response) ==
    Handled(Fulfilled(Obj([blocks |-> Get(response, "response.blocks"),
                           current_height |-> Get(response, "response.current_height"),
                           start_height |-> Get(response, "response.start_height"),
                           status |-> Get(response, "response.status")])),
            response)

transactionThen(response) ==
    IF IsNullish(response) THEN Handled(Rejected(CannotRead("tx")), response)
    ELSE IF Truthy(Get(response, "tx")) /\ Truthy(Get(Get(response, "tx"), ""))
    THEN LET after == Put(response, "tx", Delete(Get(response, "tx"), ""))
         IN  Handled(Fulfilled(after), after)
    ELSE Handled(Fulfilled(response), response)

transactionsStatusThen(response) ==
    IF \/ ~Truthy(Get(response, "status"))
       \/ ~Truthy(Get(response, "transactionsInPool"))
       \/ ~Truthy(Get(response, "transactionsInBlock"))
       \/ ~Truthy(Get(response, "transactionsUnknown"))
    THEN Handled(Rejected(Error("Missing status of transactions key")), response)
    ELSE IF Get(response, "status").t # "string"
    THEN Handled(Rejected(TypeError("response.status.toLowerCase is not a function")), response)
    ELSE IF toLowerCase(Get(response, "status").s) # "ok"
    THEN Handled(Rejected(Error("Status is not OK")), response)
    ELSE Handled(Fulfilled(Obj([transactionsInPool |-> Get(response, "transactionsInPool"),
                                transactionsInBlock |-> Get(response, "transactionsInBlock"),
                                transactionsUnknown |-> Get(response, "transactionsUnknown")])),
                 response)

\* walletSyncData's handler without the comparison of the status to "ok"
walletSyncDataThenAnyStatus(response) ==
    IF ~Truthy(Get(response, "status")) \/ ~Truthy(Get(response, "items"))
    THEN Handled(Rejected(Error("Missing items or status key")), response)
    ELSE Handled(Fulfilled(response), response)

walletSyncDataThen(response) ==
    IF ~Truthy(Get(response, "status")) \/ ~Truthy(Get(response, "items"))
    THEN Handled(Rejected(Error("Missing items or status key")), response)
    ELSE IF Get(response, "status").t # "string"
    THEN Handled(Rejected(TypeError("response.status.toLowerCase is not a function")), response)
    ELSE IF toLowerCase(Get(response, "status").s) # "ok"
    THEN Handled(Rejected(Error("Status is not OK")), response)
    ELSE Handled(Fulfilled(response), response)

-----------------------------------------------------------------------------
(* The values the caller passes and the JSON values the daemon answers with *)

\* the object with the fields of r that are not undefined
Compact(r) == Obj([k \in {j \in DOMAIN r : ~IsUndefined(r[j])} |-> r[k]])

HashArgs == {Undef, Null, Str(""), Str("h1")}
HeightArgs == {Undef, Null, Num(0), Num(7)}
ArrayArgs == {Undef, Null, Str("h1"), EmptyObj, Arr(<<>>), Arr(<<Str("h1"), Str("h2")>>)}
AmountsArgs == {Undef, Num(10), Arr(<<Num(10), Num(20)>>)}
MixinArgs == {Undef, Null, Num(0), Num(3), Str("7"), Str("abc"), Str("12abc"), Str("")}
CountArgs == {Undef, Num(0), Num(3), Num(-3), Str("abc"), Str("5")}
ReserveArgs == {Undef, Num(0), Num(8)}

BlockOpts ==
    {Undef} \cup
    {Compact([blockHashes |-> bh, timestamp |-> ts, blockCount |-> bc]) :
        bh \in {Undef, Str("h1"), Arr(<<>>), Arr(<<Str("h1")>>)},
        ts \in {Undef, Num(5)},
        bc \in {Undef, Num(0), Num(50), Num(500)}}

LiteOpts ==
    {Undef} \cup
    {Compact([blockHashes |-> bh, timestamp |-> ts]) :
        bh \in {Undef, Str("h1"), Arr(<<>>), Arr(<<Str("h1")>>)},
        ts \in {Undef, Num(5)}}

WalletOpts ==
    {Undef, Null} \cup
    {Compact([startHeight |-> sh, startTimestamp |-> st,
              blockHashCheckpoints |-> cp, skipCoinbaseTransactions |-> sk]) :
        sh \in {Undef, Num(0), Num(5)},
        st \in {Undef, Num(9)},
        cp \in {Undef, Arr(<<>>), Arr(<<Str("h1")>>)},
        sk \in {Undef, Bool(FALSE), Bool(TRUE)}}

\* the options a caller constructs the client with
CtorOpts ==
    {Undef, Null} \cup
    {Compact([host |-> h, port |-> p, timeout |-> tm, ssl |-> sl, keepAlive |-> ka,
              userAgent |-> ua]) :
        h \in {Undef, Str("10.0.0.5")},
        p \in {Undef, Num(0), Num(8080), Str("8080")},
        tm \in {Undef, Num(0), Num(500)},
        sl \in {Undef, Bool(FALSE), Bool(TRUE)},
        ka \in {Undef, Bool(FALSE), Bool(TRUE)},
        ua \in {Undef, Str("wallet/1.0")}}

\* the clients the operations are exercised on: one built without options and
\* one built with every option given
CustomOpts ==
    Obj([host |-> Str("10.0.0.5"), port |-> Num(8080), timeout |-> Num(500),
         ssl |-> Bool(TRUE), keepAlive |-> Bool(FALSE), userAgent |-> Str("wallet/1.0")])
ClientOpts == {Undef, CustomOpts}

\* status strings, in every letter case of "ok", and other strings
OkStatuses == {Str("OK"), Str("Ok"), Str("oK"), Str("ok")}
StatusValues == OkStatuses \cup {Str("failed"), Str("")}
\* a status field that may be absent
StatusOrNone == StatusValues \cup {Undef}

\* a list of values as a response holds it: absent, empty or not
ListOrNone(x) == {Undef, Arr(<<>>), Arr(<<x>>)}

Header1 == Obj([hash |-> Str("h1"), height |-> Num(1)])
Header2 == Obj([hash |-> Str("h2"), height |-> Num(2)])
Prefix1 == Obj([version |-> Num(1), unlock_time |-> Num(0)])
Prefix2 == Obj([version |-> Num(1), unlock_time |-> Num(40)])

\* the values the daemon's serializer leaves under the empty key of tx
EmptyKeyValues == {Undef, Str("x"), Num(1), Num(0), Bool(FALSE), Null, Str("")}

TxObjects ==
    {Compact(("" :> e) @@ [version |-> Num(1), unlock_time |-> Num(0)]) :
        e \in EmptyKeyValues}

\* the result member of a successful JSON-RPC envelope, per method
Results(o) ==
    CASE o = "block" ->
            {Obj([block |-> Header1, status |-> Str("OK")]), Obj([block |-> Header2]),
             Obj([status |-> Str("OK")])}
      [] o = "blockCount" ->
            {Obj([count |-> Num(12345), status |-> Str("OK")]), Obj([count |-> Num(0)])}
      [] o \in {"blockHeaderByHash", "blockHeaderByHeight", "lastBlockHeader"} ->
            {Obj([block_header |-> Header1, status |-> Str("OK")]),
             Obj([block_header |-> Header2])}
      [] o = "blockShortHeaders" ->
            {Obj([blocks |-> Arr(<<Header1, Header2>>), status |-> Str("OK")]),
             Obj([blocks |-> Arr(<<>>)])}
      [] o = "blockTemplate" ->
            {Obj([blocktemplate_blob |-> Str("0a"), difficulty |-> Num(1), height |-> Num(2),
                  reserved_offset |-> Num(3), status |-> Str("OK")])}
      [] o = "submitBlock" -> {Obj([status |-> Str("OK")])}
      [] o = "transaction" ->
            {Obj([block |-> Header1, status |-> Str("OK"), tx |-> tx, txDetails |-> Header2]) :
                tx \in TxObjects}
            \cup {Obj([status |-> Str("OK")])}
      [] o = "transactionPool" ->
            {Obj([transactions |-> Arr(<<Header1>>), status |-> Str("OK")]),
             Obj([transactions |-> Arr(<<>>)])}
      [] OTHER -> {}

RpcFailure(m) == Obj([code |-> Num(-32601), message |-> Str(m)])
RpcFailures == {RpcFailure("Method not found"), RpcFailure("boom")}

\* JSON-RPC 2.0 envelopes: a result, an error, or (from a sloppy daemon) both
Envelopes(o) ==
    {Obj([jsonrpc |-> Str("2.0"), result |-> r]) : r \in Results(o)}
    \cup {Obj([jsonrpc |-> Str("2.0"), error |-> e]) : e \in RpcFailures}
    \cup {Obj([jsonrpc |-> Str("2.0"), error |-> e, result |-> r]) :
            e \in {RpcFailure("boom")}, r \in Results(o)}

\* one entry of txPrefixes or addedTxs, under its dotted keys
TxEntry(h, p) ==
    Obj(("transactionPrefixInfo.txHash" :> Str(h)) @@ ("transactionPrefixInfo.txPrefix" :> p))
TxEntries == {TxEntry("t1", Prefix1), TxEntry("t2", Prefix2)}
TxLists == SeqUpTo(TxEntries, MaxLen)

\* a byte array as JSON carries it
ByteArray(b) == Arr([i \in 1..Len(b) |-> Num(b[i])])

\* one item of a queryblockslite response, under its dotted keys
RawItem(b, id, txl) ==
    Obj(("blockShortInfo.block" :> ByteArray(b)) @@ ("blockShortInfo.blockId" :> Str(id))
        @@ ("blockShortInfo.txPrefixes" :> Arr(txl)))
RawItems ==
    {RawItem(<<0, 255, 16>>, "h1", txl) : txl \in TxLists}
    \cup {RawItem(<<>>, "h2", <<>>)}

\* the JSON value a raw POST or a GET endpoint answers with, per operation
Bodies(o) ==
    CASE o = "blocksLite" ->
            {Obj([items |-> Arr(its), status |-> Str("OK"), startHeight |-> Num(1)]) :
                its \in SeqUpTo(RawItems, MaxLen)}
            \cup {Obj([status |-> Str("failed")])}
      [] o = "poolChanges" ->
            {Obj([addedTxs |-> Arr(txl), deletedTxsIds |-> Arr(<<Str("t9")>>),
                  isTailBlockActual |-> Bool(TRUE), status |-> Str("OK")]) : txl \in TxLists}
            \cup {Obj([status |-> Str("failed")])}
      [] o = "globalIndexes" ->
            {Compact([status |-> st, o_indexes |-> x]) :
                st \in StatusOrNone, x \in {Undef, Arr(<<>>), Arr(<<Num(1), Num(2), Num(3)>>)}}
      [] o = "globalIndexesForRange" ->
            {Compact([status |-> st, indexes |-> x]) :
                st \in StatusOrNone, x \in ListOrNone(Header1)}
      [] o = "transactionsStatus" ->
            {Compact([status |-> st, transactionsInPool |-> a, transactionsInBlock |-> b,
                      transactionsUnknown |-> c, extra |-> Num(1)]) :
                st \in StatusOrNone, a \in ListOrNone(Str("t1")),
                b \in ListOrNone(Str("t2")), c \in ListOrNone(Str("t3"))}
      [] o = "walletSyncData" ->
            {Compact([status |-> st, items |-> x, synced |-> Bool(FALSE)]) :
                st \in StatusOrNone, x \in ListOrNone(Header1)}
      [] o = "rawBlocks" ->
            {Obj([k \in ks |->
                    CASE k = "response.blocks" -> Arr(<<Header1>>)
                      [] k = "response.current_height" -> Num(10)
                      [] k = "response.start_height" -> Num(5)
                      [] OTHER -> Str("OK")]) :
                ks \in SUBSET {"response.blocks", "response.current_height",
                               "response.start_height", "response.status"}}
      [] OTHER ->
            {Obj([status |-> Str("OK"), height |-> Num(3)]), Obj([status |-> Str("failed")])}

-----------------------------------------------------------------------------
(* The state machine: one call at a time, from the caller's invocation to    *)
(* the settlement of the promise the operation returned.                     *)

RpcOps ==
    {"block", "blockCount", "blockHeaderByHash", "blockHeaderByHeight", "blockShortHeaders",
     "blockTemplate", "lastBlockHeader", "submitBlock", "transaction", "transactionPool"}

\* the operations that attach a handler of their own to the promise
RuleOps ==
    {"block", "blockCount", "blockHeaderByHash", "blockHeaderByHeight", "blockShortHeaders",
     "lastBlockHeader", "transaction", "transactionPool", "blocksLite", "globalIndexes",
     "globalIndexesForRange", "poolChanges", "rawBlocks", "transactionsStatus",
     "walletSyncData"}

\* the handler of operation o applied to the value its promise was fulfilled with
Rule(o, response) ==
    CASE o = "block" -> blockThen(response)
      [] o = "blockCount" -> blockCountThen(response)
      [] o = "blockHeaderByHash" -> blockHeaderByHashThen(response)
      [] o = "blockHeaderByHeight" -> blockHeaderByHeightThen(response)
      [] o = "blockShortHeaders" -> blockShortHeadersThen(response)
      [] o = "lastBlockHeader" -> lastBlockHeaderThen(response)
      [] o = "transaction" -> transactionThen(response)
      [] o = "transactionPool" -> transactionPoolThen(response)
      [] o = "blocksLite" -> blocksLiteThen(response)
      [] o = "globalIndexes" -> globalIndexesThen(response)
      [] o = "globalIndexesForRange" -> globalIndexesForRangeThen(response)
      [] o = "poolChanges" -> poolChangesThen(response)
      [] o = "rawBlocks" -> rawBlocksThen(response)
      [] o = "transactionsStatus" -> transactionsStatusThen(response)
      [] o = "walletSyncData" -> walletSyncDataThen(response)

\* what the transport can answer the pending request of operation o with
Responses(o) == IF o \in RpcOps THEN Envelopes(o) ELSE Bodies(o)

\* ConcSpec's callers, none of which has called yet
Callers == 1..2
NoCall ==
    [pc |-> "idle", op |-> "none", args |-> <<>>, requests |-> <<>>, raw |-> Pending,
     mid |-> Pending, outcome |-> Pending]
NoCalls == [c \in Callers |-> NoCall]

Init ==
    /\ pc = "idle"
    /\ op = "none"
    /\ args = <<>>
    /\ requests = <<>>
    /\ raw = Pending
    /\ mid = Pending
    /\ outcome = Pending
    /\ rawAfter = Undef
    /\ bytes = <<>>
    /\ hexOut = Undef
    /\ ctorOpts \in ClientOpts
    /\ config = constructor(ctorOpts)
    /\ calls = NoCalls
    /\ delivered = <<>>

\* a call that turns keep-alive off on the client once its request is built
CallDisablingKeepAlive(o, a, r) ==
    /\ op' = o
    /\ args' = a
    /\ IF r.state = "thrown"
       THEN /\ pc' = "done"
            /\ outcome' = r
            /\ requests' = requests
            /\ config' = config
       ELSE /\ pc' = "pending"
            /\ outcome' = Pending
            /\ requests' = Append(requests, r.request)
            /\ config' = Put(config, "keepAlive", Bool(FALSE))
    /\ UNCHANGED <<raw, mid, rawAfter, bytes, hexOut, ctorOpts, concVars>>

\* the caller invokes operation o with arguments a; r is what the
\* synchronous part of the operation comes to
Call(o, a, r) ==
    /\ op' = o
    /\ args' = a
    /\ IF r.state = "thrown"
       THEN /\ pc' = "done"
            /\ outcome' = r
            /\ requests' = requests
       ELSE /\ pc' = "pending"
            /\ outcome' = Pending
            /\ requests' = Append(requests, r.request)
    /\ UNCHANGED <<raw, mid, rawAfter, bytes, hexOut, clientVars, concVars>>

Block == pc = "idle" /\ \E hash \in HashArgs : Call("block", <<hash>>, block(hash))
BlockCount == pc = "idle" /\ Call("blockCount", <<>>, blockCount)
BlockHeaderByHash ==
    /\ pc = "idle"
    /\ \E hash \in HashArgs :
        Call("blockHeaderByHash", <<hash>>, blockHeaderByHash(hash))
BlockHeaderByHeight ==
    /\ pc = "idle"
    /\ \E h \in HeightArgs :
        Call("blockHeaderByHeight", <<h>>, blockHeaderByHeight(h))
BlockShortHeaders ==
    pc = "idle" /\ \E h \in HeightArgs : Call("blockShortHeaders", <<h>>, blockShortHeaders(h))
BlocksDetailed ==
    /\ pc = "idle"
    /\ \E opts \in BlockOpts :
        Call("blocksDetailed", <<opts>>, blocksDetailed(opts))
BlocksLite ==
    /\ pc = "idle"
    /\ \E opts \in LiteOpts :
        Call("blocksLite", <<opts>>, blocksLite(opts))
BlockTemplate ==
    /\ pc = "idle"
    /\ \E w \in HashArgs, r \in ReserveArgs :
        Call("blockTemplate", <<w, r>>, blockTemplate(w, r))
Fee == pc = "idle" /\ Call("fee", <<>>, fee)
GlobalIndexes ==
    /\ pc = "idle"
    /\ \E h \in HashArgs :
        Call("globalIndexes", <<h>>, globalIndexes(h))
GlobalIndexesForRange ==
    pc = "idle" /\ \E s \in HeightArgs, e \in HeightArgs :
        Call("globalIndexesForRange", <<s, e>>, globalIndexesForRange(s, e))
Height == pc = "idle" /\ Call("height", <<>>, height)
Info == pc = "idle" /\ Call("info", <<>>, info)
LastBlockHeader == pc = "idle" /\ Call("lastBlockHeader", <<>>, lastBlockHeader)
Peers == pc = "idle" /\ Call("peers", <<>>, peers)
PoolChanges ==
    /\ pc = "idle"
    /\ \E t \in HashArgs, k \in ArrayArgs :
        Call("poolChanges", <<t, k>>, poolChanges(t, k))
RandomOutputs ==
    /\ pc = "idle"
    /\ \E a \in AmountsArgs, m \in MixinArgs :
        Call("randomOutputs", <<a, m>>, randomOutputs(a, m))
RawBlocks ==
    /\ pc = "idle"
    /\ \E b \in ArrayArgs, c \in CountArgs :
        Call("rawBlocks", <<b, c>>, rawBlocks(b, c))
SendRawTransaction ==
    pc = "idle" /\ \E t \in HashArgs : Call("sendRawTransaction", <<t>>, sendRawTransaction(t))
SubmitBlock == pc = "idle" /\ \E b \in HashArgs : Call("submitBlock", <<b>>, submitBlock(b))
Transaction ==
    /\ pc = "idle"
    /\ \E hash \in HashArgs :
        Call("transaction", <<hash>>, transaction(hash))
TransactionPool == pc = "idle" /\ Call("transactionPool", <<>>, transactionPool)
TransactionsStatus ==
    pc = "idle" /\ \E t \in ArrayArgs : Call("transactionsStatus", <<t>>, transactionsStatus(t))
WalletSyncData ==
    /\ pc = "idle"
    /\ \E opts \in WalletOpts :
        Call("walletSyncData", <<opts>>, walletSyncData(opts))

\* the promise the operation returned is the transport's own promise
ReturnsTransportPromise(o) == o \notin RpcOps /\ o \notin RuleOps
\* the promise the operation returned is the one _post returned
ReturnsPostPromise(o) == o \in RpcOps /\ o \notin RuleOps

\* the transport settles the pending request with settlement s
Settle(s) ==
    /\ raw' = s
    /\ rawAfter' = IF s.state = "fulfilled" THEN s.value ELSE Undef
    /\ IF ReturnsTransportPromise(op)
       THEN pc' = "done" /\ outcome' = s
       ELSE pc' = "responded" /\ outcome' = outcome
    /\ UNCHANGED <<op, args, requests, mid, bytes, hexOut, clientVars, concVars>>

TransportResolve == pc = "pending" /\ \E r \in Responses(op) : Settle(Fulfilled(r))

\* a client that sends the request once more when the transport fails
TransportRejectRetrying ==
    /\ pc = "pending"
    /\ \E e \in NetworkErrors :
        IF Len(requests) < 2
        THEN /\ requests' = Append(requests, requests[1])
             /\ UNCHANGED <<pc, op, args, raw, mid, outcome, rawAfter, bytes, hexOut,
                            clientVars, concVars>>
        ELSE Settle(Rejected(e))

TransportReject == pc = "pending" /\ \E e \in NetworkErrors : Settle(Rejected(e))

\* _post with a catch that wraps the transport's failure in an Error of its own
PostThenWrapping ==
    /\ pc = "responded"
    /\ op \in RpcOps
    /\ mid' = IF raw.state = "rejected" THEN Rejected(Error(raw.error.message))
              ELSE postThen(raw.value).out
    /\ IF ReturnsPostPromise(op)
       THEN pc' = "done" /\ outcome' = mid'
       ELSE pc' = "posted" /\ outcome' = outcome
    /\ UNCHANGED <<op, args, requests, raw, rawAfter, bytes, hexOut, clientVars, concVars>>

\* _post's handler runs on the settled transport promise; a rejection passes
\* through untouched
PostThen ==
    /\ pc = "responded"
    /\ op \in RpcOps
    /\ mid' = IF raw.state = "rejected" THEN raw ELSE postThen(raw.value).out
    /\ IF ReturnsPostPromise(op)
       THEN pc' = "done" /\ outcome' = mid'
       ELSE pc' = "posted" /\ outcome' = outcome
    /\ UNCHANGED <<op, args, requests, raw, rawAfter, bytes, hexOut, clientVars, concVars>>

\* the operation's own handler runs on the promise it was attached to
OpThen ==
    /\ op \in RuleOps
    /\ \/ pc = "posted" /\ op \in RpcOps
       \/ pc = "responded" /\ op \notin RpcOps
    /\ LET up == IF op \in RpcOps THEN mid ELSE raw
       IN  IF up.state = "rejected"
           THEN outcome' = up /\ rawAfter' = rawAfter
           ELSE /\ outcome' = Rule(op, up.value).out
                /\ rawAfter' = IF op \in RpcOps
                               THEN Put(rawAfter, "result", Rule(op, up.value).resp)
                               ELSE Rule(op, up.value).resp
    /\ pc' = "done"
    /\ UNCHANGED <<op, args, requests, raw, mid, bytes, hexOut, clientVars, concVars>>

\* the caller has its outcome; the client is ready for the next call
Return ==
    /\ pc = "done"
    /\ pc' = "idle"
    /\ op' = "none"
    /\ args' = <<>>
    /\ requests' = <<>>
    /\ raw' = Pending
    /\ mid' = Pending
    /\ outcome' = Pending
    /\ rawAfter' = Undef
    /\ UNCHANGED <<bytes, hexOut, clientVars, concVars>>

Next ==
    \/ Block \/ BlockCount \/ BlockHeaderByHash \/ BlockHeaderByHeight
    \/ BlockShortHeaders \/ BlocksDetailed \/ BlocksLite \/ BlockTemplate
    \/ Fee \/ GlobalIndexes \/ GlobalIndexesForRange \/ Height \/ Info
    \/ LastBlockHeader \/ Peers \/ PoolChanges \/ RandomOutputs \/ RawBlocks
    \/ SendRawTransaction \/ SubmitBlock \/ Transaction \/ TransactionPool
    \/ TransactionsStatus \/ WalletSyncData
    \/ TransportResolve \/ TransportReject \/ PostThen \/ OpThen \/ Return

Spec == Init /\ [][Next]_vars

-----------------------------------------------------------------------------
(* The hexadecimal conversion on its own: a byte array is drawn, and          *)
(* blocksLite's handler is run on a response whose one item carries it.       *)

ByteSamples == {0, 9, 10, 15, 16, 255}
ByteArrays == {<<b>> : b \in 0..255} \cup SeqUpTo(ByteSamples, MaxBytes)

InitHex ==
    /\ pc = "idle"
    /\ op = "none"
    /\ args = <<>>
    /\ requests = <<>>
    /\ raw = Pending
    /\ mid = Pending
    /\ outcome = Pending
    /\ rawAfter = Undef
    /\ bytes \in ByteArrays
    /\ hexOut = Undef
    /\ ctorOpts = Undef
    /\ config = constructor(ctorOpts)
    /\ calls = NoCalls
    /\ delivered = <<>>

ConvertBlock ==
    /\ hexOut = Undef
    /\ hexOut' = blocksLiteThen(Obj([items |-> Arr(<<RawItem(bytes, "h1", <<>>)>>),
                                     status |-> Str("OK")])).out
    /\ UNCHANGED <<pc, op, args, requests, raw, mid, outcome, rawAfter, bytes,
                   clientVars, concVars>>

NextHex == ConvertBlock

HexSpec == InitHex /\ [][NextHex]_vars

-----------------------------------------------------------------------------
(* The construction of the client on its own: the caller's options are      *)
(* drawn, and the constructor fills the fields of the new object.           *)

InitCtor ==
    /\ pc = "idle"
    /\ op = "none"
    /\ args = <<>>
    /\ requests = <<>>
    /\ raw = Pending
    /\ mid = Pending
    /\ outcome = Pending
    /\ rawAfter = Undef
    /\ bytes = <<>>
    /\ hexOut = Undef
    /\ ctorOpts \in CtorOpts
    /\ config = EmptyObj
    /\ calls = NoCalls
    /\ delivered = <<>>

\* new MONCoind(ctorOpts)
Constructor ==
    /\ config = EmptyObj
    /\ config' = constructor(ctorOpts)
    /\ UNCHANGED <<pc, op, args, requests, raw, mid, outcome, rawAfter, bytes, hexOut,
                   ctorOpts, concVars>>

NextCtor == Constructor

CtorSpec == InitCtor /\ [][NextCtor]_vars

-----------------------------------------------------------------------------
(* Several calls in flight on one client.  Each caller makes one call; the  *)
(* transport answers the pending requests in any order, and each promise's  *)
(* handlers run when that promise has settled.                               *)

\* the public method named o applied to the arguments a
Invoke(o, a) ==
    CASE o = "block" -> block(a[1])
      [] o = "blockCount" -> blockCount
      [] o = "blockHeaderByHash" -> blockHeaderByHash(a[1])
      [] o = "blockHeaderByHeight" -> blockHeaderByHeight(a[1])
      [] o = "blockShortHeaders" -> blockShortHeaders(a[1])
      [] o = "blocksDetailed" -> blocksDetailed(a[1])
      [] o = "blocksLite" -> blocksLite(a[1])
      [] o = "blockTemplate" -> blockTemplate(a[1], a[2])
      [] o = "fee" -> fee
      [] o = "globalIndexes" -> globalIndexes(a[1])
      [] o = "globalIndexesForRange" -> globalIndexesForRange(a[1], a[2])
      [] o = "height" -> height
      [] o = "info" -> info
      [] o = "lastBlockHeader" -> lastBlockHeader
      [] o = "peers" -> peers
      [] o = "poolChanges" -> poolChanges(a[1], a[2])
      [] o = "randomOutputs" -> randomOutputs(a[1], a[2])
      [] o = "rawBlocks" -> rawBlocks(a[1], a[2])
      [] o = "sendRawTransaction" -> sendRawTransaction(a[1])
      [] o = "submitBlock" -> submitBlock(a[1])
      [] o = "transaction" -> transaction(a[1])
      [] o = "transactionPool" -> transactionPool
      [] o = "transactionsStatus" -> transactionsStatus(a[1])
      [] o = "walletSyncData" -> walletSyncData(a[1])

\* the calls the concurrent callers choose from: one of each kind of
\* operation (GET, raw POST and JSON-RPC, with and without a rule of its
\* own), and one that throws on its argument
ConcCalls ==
    {<<"fee", <<>>>>,
     <<"blockCount", <<>>>>,
     <<"submitBlock", <<Str("0a")>>>>,
     <<"transaction", <<Str("h1")>>>>,
     <<"transaction", <<Undef>>>>,
     <<"poolChanges", <<Str("h1"), Arr(<<>>)>>>>,
     <<"walletSyncData", <<Undef>>>>}

InitConc ==
    /\ pc = "idle"
    /\ op = "none"
    /\ args = <<>>
    /\ requests = <<>>
    /\ raw = Pending
    /\ mid = Pending
    /\ outcome = Pending
    /\ rawAfter = Undef
    /\ bytes = <<>>
    /\ hexOut = Undef
    /\ ctorOpts = Undef
    /\ config = constructor(ctorOpts)
    /\ calls = NoCalls
    /\ delivered = <<>>

\* the rest of the model stands still while the concurrent callers run
ConcFrame ==
    UNCHANGED <<pc, op, args, requests, raw, mid, outcome, rawAfter, bytes, hexOut,
                clientVars>>

\* caller c invokes one of the operations
CallerCalls(c) ==
    /\ calls[c].pc = "idle"
    /\ \E call \in ConcCalls :
        LET r == Invoke(call[1], call[2])
        IN  calls' = [calls EXCEPT ![c] =
                IF r.state = "thrown"
                THEN [@ EXCEPT !.pc = "done", !.op = call[1], !.args = call[2],
                               !.outcome = r]
                ELSE [@ EXCEPT !.pc = "pending", !.op = call[1], !.args = call[2],
                               !.requests = Append(@, r.request)]]
    /\ delivered' = delivered
    /\ ConcFrame

\* the transport settles caller c's pending request with settlement s
CallerSettle(c, s) ==
    /\ calls' = [calls EXCEPT ![c] =
            IF ReturnsTransportPromise(calls[c].op)
            THEN [@ EXCEPT !.pc = "done", !.raw = s, !.outcome = s]
            ELSE [@ EXCEPT !.pc = "responded", !.raw = s]]
    /\ delivered' = Append(delivered, c)
    /\ ConcFrame

CallerResolved(c) ==
    /\ calls[c].pc = "pending"
    /\ \E r \in Responses(calls[c].op) : CallerSettle(c, Fulfilled(r))

CallerRejected(c) ==
    /\ calls[c].pc = "pending"
    /\ \E e \in NetworkErrors : CallerSettle(c, Rejected(e))

\* _post's handler reading the response the client received last, as it
\* would from a field of the client shared by all calls
PostInputLatest(c) == calls[delivered[Len(delivered)]].raw

\* the settlement the handler of caller c's _post runs on: a handler has
\* in hand what the promise it was attached to was fulfilled with
PostInput(c) == calls[c].raw
\* the settlement the handler of caller c's operation runs on
RuleInput(c) == IF calls[c].op \in RpcOps THEN calls[c].mid ELSE calls[c].raw

\* _post's handler of caller c's call runs
CallerPostThen(c) ==
    /\ calls[c].pc = "responded"
    /\ calls[c].op \in RpcOps
    /\ LET m == IF PostInput(c).state = "rejected" THEN PostInput(c)
                ELSE postThen(PostInput(c).value).out
       IN  calls' = [calls EXCEPT ![c] =
                IF ReturnsPostPromise(calls[c].op)
                THEN [@ EXCEPT !.pc = "done", !.mid = m, !.outcome = m]
                ELSE [@ EXCEPT !.pc = "posted", !.mid = m]]
    /\ delivered' = delivered
    /\ ConcFrame

\* the handler of caller c's operation runs
CallerOpThen(c) ==
    /\ calls[c].op \in RuleOps
    /\ \/ calls[c].pc = "posted" /\ calls[c].op \in RpcOps
       \/ calls[c].pc = "responded" /\ calls[c].op \notin RpcOps
    /\ calls' = [calls EXCEPT ![c] =
            [@ EXCEPT !.pc = "done",
                      !.outcome = IF RuleInput(c).state = "rejected" THEN RuleInput(c)
                                  ELSE Rule(calls[c].op, RuleInput(c).value).out]]
    /\ delivered' = delivered
    /\ ConcFrame

NextConc ==
    \E c \in Callers :
        \/ CallerCalls(c)
        \/ CallerResolved(c)
        \/ CallerRejected(c)
        \/ CallerPostThen(c)
        \/ CallerOpThen(c)

ConcSpec == InitConc /\ [][NextConc]_vars

-----------------------------------------------------------------------------
(* Properties *)

\* a call is under way or has ended
InCall == pc # "idle"
\* the call has ended and the transport had answered it with a JSON value
Answered == pc = "done" /\ raw.state = "fulfilled"

\* a required argument of the current call is missing, or is not an array
\* where the operation requires an array
BadArguments ==
    CASE op \in {"block", "blockHeaderByHash", "blockHeaderByHeight", "blockShortHeaders",
                 "globalIndexes", "sendRawTransaction", "submitBlock", "transaction"} ->
            args[1] = Undef
      [] op \in {"blocksDetailed", "blocksLite"} ->
            \/ args[1].t # "object"
            \/ "blockHashes" \notin DOMAIN args[1].o
            \/ args[1].o["blockHashes"].t # "array"
      [] op \in {"blockTemplate", "globalIndexesForRange"} ->
            args[1] = Undef \/ args[2] = Undef
      [] op = "poolChanges" -> args[1] = Undef \/ args[2].t # "array"
      [] op = "randomOutputs" -> args[1].t # "array" \/ args[2] = Undef
      [] op \in {"rawBlocks", "transactionsStatus"} -> args[1].t # "array"
      [] OTHER -> FALSE

C2_EnvelopeErrorOrResult ==
    (op \in RpcOps /\ raw.state = "fulfilled" /\ pc \in {"posted", "done"}) =>
        IF "error" \in DOMAIN raw.value.o
        THEN /\ mid = Rejected([name |-> "Error",
                                message |-> raw.value.o["error"].o["message"].s])
             /\ pc = "done" => outcome = mid
        ELSE mid = Fulfilled(raw.value.o["result"])

\* an envelope carrying both an error and a result has been rejected
C2_Witness ==
    /\ pc = "done"
    /\ op = "blockCount"
    /\ raw.state = "fulfilled"
    /\ {"error", "result"} \subseteq DOMAIN raw.value.o
    /\ outcome.state = "rejected"
    /\ outcome.error.message = "boom"

StatusOps == {"globalIndexes", "globalIndexesForRange", "transactionsStatus", "walletSyncData"}

\* the keys a status-checked operation expects beside the status
ExpectedKeys(o) ==
    CASE o = "globalIndexes" -> {"o_indexes"}
      [] o = "globalIndexesForRange" -> {"indexes"}
      [] o = "transactionsStatus" ->
            {"transactionsInPool", "transactionsInBlock", "transactionsUnknown"}
      [] o = "walletSyncData" -> {"items"}

\* the documented sub-fields of response r for status-checked operation o
Documented(o, r) ==
    CASE o = "globalIndexes" -> r.o["o_indexes"]
      [] o = "globalIndexesForRange" -> r.o["indexes"]
      [] o = "transactionsStatus" ->
            Obj([k \in {"transactionsInPool", "transactionsInBlock", "transactionsUnknown"} |->
                    r.o[k]])
      [] o = "walletSyncData" -> r

\* "ok" in each of its four letter cases
OkSpellings == {"OK", "Ok", "oK", "ok"}
HasStatus(r) == "status" \in DOMAIN r.o
StatusIsOk(r) == HasStatus(r) /\ r.o["status"].t = "string" /\ r.o["status"].s \in OkSpellings

\* C3: a status-checked operation answered with a status of "ok" in any
\* letter case and all expected keys present is fulfilled with exactly the
\* documented sub-fields of the response.
C3_OkStatusYieldsDocumentedFields ==
    (Answered /\ op \in StatusOps /\ StatusIsOk(raw.value)
        /\ ExpectedKeys(op) \subseteq DOMAIN raw.value.o) =>
        outcome = Fulfilled(Documented(op, raw.value))

\* transactionsStatus answered with status "oK", two empty lists and one
\* non-empty list
C3_Witness ==
    /\ Answered
    /\ op = "transactionsStatus"
    /\ StatusIsOk(raw.value)
    /\ raw.value.o["status"].s = "oK"
    /\ ExpectedKeys(op) \subseteq DOMAIN raw.value.o
    /\ raw.value.o["transactionsInPool"] = Arr(<<>>)
    /\ raw.value.o["transactionsUnknown"] = Arr(<<Str("t3")>>)
    /\ outcome.state = "fulfilled"
    /\ DOMAIN outcome.value.o = ExpectedKeys(op)

\* C4: a status-checked operation answered with a status that is present but
\* is not "ok" in any letter case is rejected with an Error of its rule and
\* is never fulfilled, whether or not the expected keys are present.
C4_BadStatusIsRejected ==
    (Answered /\ op \in StatusOps /\ HasStatus(raw.value) /\ ~StatusIsOk(raw.value)) =>
        /\ outcome.state = "rejected"
        /\ outcome.error.name = "Error"

\* walletSyncData answered with status "failed" and items present
C4_Witness ==
    /\ Answered
    /\ op = "walletSyncData"
    /\ raw.value.o = [status |-> Str("failed"), items |-> Arr(<<Header1>>),
                      synced |-> Bool(FALSE)]
    /\ outcome = Rejected(Error("Status is not OK"))

\* the envelope of the current call carries no error
NoRpcError == "error" \notin DOMAIN raw.value.o
\* the result member of the envelope of the current call
RpcResult == raw.value.o["result"]

\* C5: a status-checked operation answered without a status, or without one
\* of its expected keys, is rejected with an Error raised by its own rule,
\* not with a runtime TypeError.
C5_MissingStatusOrKeyIsStatusError ==
    (Answered /\ op \in StatusOps
        /\ (~HasStatus(raw.value) \/ ~(ExpectedKeys(op) \subseteq DOMAIN raw.value.o))) =>
        /\ outcome.state = "rejected"
        /\ outcome.error.name = "Error"

\* the sub-field of result each field-extraction operation returns
ExtractedField(o) ==
    CASE o = "block" -> "block"
      [] o = "blockCount" -> "count"
      [] o \in {"blockHeaderByHeight", "lastBlockHeader"} -> "block_header"
      [] o = "blockShortHeaders" -> "blocks"
      [] o = "transactionPool" -> "transactions"

ExtractionOps ==
    {"block", "blockCount", "blockHeaderByHeight", "lastBlockHeader", "blockShortHeaders",
     "transactionPool"}

\* C6: a field-extraction operation answered with an envelope without error
\* is fulfilled with exactly the named sub-field of result; an envelope
\* {jsonrpc: "2.0", result: {count: n}} fulfils blockCount with n.
C6_FieldExtraction ==
    (Answered /\ op \in ExtractionOps /\ "error" \notin DOMAIN raw.value.o) =>
        /\ ExtractedField(op) \in DOMAIN raw.value.o["result"].o =>
                outcome = Fulfilled(raw.value.o["result"].o[ExtractedField(op)])
        /\ ExtractedField(op) \notin DOMAIN raw.value.o["result"].o =>
                outcome = Fulfilled(Undef)
        /\ (op = "blockCount" /\ raw.value = Obj([jsonrpc |-> Str("2.0"),
                                                  result |-> Obj([count |-> Num(0)])])) =>
                outcome = Fulfilled(Num(0))

\* blockCount answered with a count of 12345 beside a status
C6_Witness ==
    /\ Answered
    /\ op = "blockCount"
    /\ raw.value.o = [jsonrpc |-> Str("2.0"),
                      result |-> Obj([count |-> Num(12345), status |-> Str("OK")])]
    /\ outcome = Fulfilled(Num(12345))

\* C7: blockHeaderByHash answered with a result carrying block_header is
\* fulfilled with that header, the value blockHeaderByHeight and
\* lastBlockHeader yield for the same result.
C7_BlockHeaderByHashYieldsHeader ==
    (Answered /\ op = "blockHeaderByHash" /\ NoRpcError
        /\ "block_header" \in DOMAIN RpcResult.o) =>
        /\ outcome = Fulfilled(RpcResult.o["block_header"])
        /\ outcome = blockHeaderByHeightThen(RpcResult).out
        /\ outcome = lastBlockHeaderThen(RpcResult).out

\* C8: transaction answered with a result whose tx has an empty-string key,
\* whatever its value, is fulfilled with the result in which tx lacks that
\* key and everything else is as it was.
C8_EmptyKeyStripped ==
    (Answered /\ op = "transaction" /\ NoRpcError /\ "tx" \in DOMAIN RpcResult.o
        /\ "" \in DOMAIN RpcResult.o["tx"].o) =>
        /\ outcome.state = "fulfilled"
        /\ DOMAIN outcome.value.o = DOMAIN RpcResult.o
        /\ \A k \in DOMAIN RpcResult.o \ {"tx"} : outcome.value.o[k] = RpcResult.o[k]
        /\ DOMAIN outcome.value.o["tx"].o = DOMAIN RpcResult.o["tx"].o \ {""}
        /\ \A k \in DOMAIN RpcResult.o["tx"].o \ {""} :
                outcome.value.o["tx"].o[k] = RpcResult.o["tx"].o[k]

\* the sixteen hexadecimal digits, by value
HexNames == <<"0", "1", "2", "3", "4", "5", "6", "7", "8", "9", "a", "b", "c", "d", "e", "f">>

\* the two-digit lowercase hexadecimal form of each byte of a, in order
RECURSIVE ExpectedHex(_)
ExpectedHex(a) ==
    IF Len(a) = 0 THEN ""
    ELSE HexNames[(a[1].n \div 16) + 1] \o HexNames[(a[1].n % 16) + 1] \o ExpectedHex(Tail(a))

RawBlocksKeys == {"blocks", "current_height", "start_height", "status"}

\* transaction records otx are the entries stx under the plain names
PrefixesRewritten(stx, otx) ==
    /\ Len(otx) = Len(stx)
    /\ \A j \in 1..Len(stx) :
        /\ DOMAIN otx[j].o = {"hash", "prefix"}
        /\ otx[j].o["hash"] = stx[j].o["transactionPrefixInfo.txHash"]
        /\ otx[j].o["prefix"] = stx[j].o["transactionPrefixInfo.txPrefix"]

\* items out are the items src under the plain names
ItemsRewritten(src, out) ==
    /\ Len(out) = Len(src)
    /\ \A i \in 1..Len(src) :
        /\ DOMAIN out[i].o = {"block", "hash", "transactions"}
        /\ out[i].o["hash"] = src[i].o["blockShortInfo.blockId"]
        /\ out[i].o["block"] = Str(ExpectedHex(src[i].o["blockShortInfo.block"].a))
        /\ PrefixesRewritten(src[i].o["blockShortInfo.txPrefixes"].a,
                             out[i].o["transactions"].a)

\* C9: rawBlocks is fulfilled with an object of exactly the keys blocks,
\* current_height, start_height and status, each holding what the response
\* holds under 'response.<name>'; every item blocksLite yields has exactly
\* the keys block, hash and transactions, taken from the item's
\* 'blockShortInfo.*' keys, and every transaction of it exactly hash and
\* prefix, taken from the entry's 'transactionPrefixInfo.*' keys.
C9_DottedKeysRewritten ==
    /\ (Answered /\ op = "rawBlocks") =>
        /\ outcome.state = "fulfilled"
        /\ DOMAIN outcome.value.o = RawBlocksKeys
        /\ \A k \in RawBlocksKeys :
            outcome.value.o[k] =
                IF ("response." \o k) \in DOMAIN raw.value.o
                THEN raw.value.o["response." \o k] ELSE Undef
    /\ (Answered /\ op = "blocksLite" /\ "items" \in DOMAIN raw.value.o) =>
        /\ outcome.state = "fulfilled"
        /\ ItemsRewritten(raw.value.o["items"].a, outcome.value.o["items"].a)

\* blocksLite answered with two items, the first of two transactions
C9_Witness ==
    /\ Answered
    /\ op = "blocksLite"
    /\ "items" \in DOMAIN raw.value.o
    /\ Len(raw.value.o["items"].a) = 2
    /\ Len(raw.value.o["items"].a[1].o["blockShortInfo.txPrefixes"].a) = 2
    /\ outcome.state = "fulfilled"
    /\ outcome.value.o["items"].a[1].o["transactions"].a[2].o["hash"] \in {Str("t1"), Str("t2")}

\* the block field blocksLite produced for the byte array bytes
HexBlock == hexOut.value.o["items"].a[1].o["block"].s

\* C10: the block field of a blocksLite item whose byte array has N entries
\* in 0..255 is a string of 2*N characters, the two characters for entry i
\* being its two-digit lowercase hexadecimal form; [0, 255, 16] gives
\* "00ff10".
C10_BlockIsTwoDigitHex ==
    hexOut # Undef =>
        /\ hexOut.state = "fulfilled"
        /\ Len(HexBlock) = 2 * Len(bytes)
        /\ \A i \in 1..Len(bytes) :
            /\ Char(HexBlock, 2 * i - 1) = HexNames[(bytes[i] \div 16) + 1]
            /\ Char(HexBlock, 2 * i) = HexNames[(bytes[i] % 16) + 1]
        /\ bytes = <<0, 255, 16>> => HexBlock = "00ff10"

\* the byte array [0, 255, 16] has been converted
C10_Witness ==
    /\ hexOut # Undef
    /\ bytes = <<0, 255, 16>>
    /\ HexBlock = "00ff10"

\* C11: reshaping keeps count and order: blocksLite answered with N items is
\* fulfilled with N items, the i-th of them carrying as many {hash, prefix}
\* records as the i-th input item has tx-prefix entries; poolChanges answered
\* with N addedTxs entries is fulfilled with N records; the k-th record is
\* made of the hash and the prefix of the k-th entry.
C11_ReshapingKeepsCountAndOrder ==
    /\ (Answered /\ op = "blocksLite" /\ "items" \in DOMAIN raw.value.o) =>
        /\ outcome.state = "fulfilled"
        /\ Len(outcome.value.o["items"].a) = Len(raw.value.o["items"].a)
        /\ \A i \in 1..Len(raw.value.o["items"].a) :
            LET stx == raw.value.o["items"].a[i].o["blockShortInfo.txPrefixes"].a
                otx == outcome.value.o["items"].a[i].o["transactions"].a
            IN  /\ Len(otx) = Len(stx)
                /\ \A k \in 1..Len(stx) :
                    otx[k] = Obj([hash |-> stx[k].o["transactionPrefixInfo.txHash"],
                                  prefix |-> stx[k].o["transactionPrefixInfo.txPrefix"]])
    /\ (Answered /\ op = "poolChanges" /\ "addedTxs" \in DOMAIN raw.value.o) =>
        /\ outcome.state = "fulfilled"
        /\ Len(outcome.value.o["addedTxs"].a) = Len(raw.value.o["addedTxs"].a)
        /\ \A k \in 1..Len(raw.value.o["addedTxs"].a) :
            outcome.value.o["addedTxs"].a[k] =
                Obj([hash |-> raw.value.o["addedTxs"].a[k].o["transactionPrefixInfo.txHash"],
                     prefix |-> raw.value.o["addedTxs"].a[k].o["transactionPrefixInfo.txPrefix"]])

\* poolChanges answered with the entries t2, t1 in that order
C11_Witness ==
    /\ Answered
    /\ op = "poolChanges"
    /\ "addedTxs" \in DOMAIN raw.value.o
    /\ raw.value.o["addedTxs"].a = <<TxEntry("t2", Prefix2), TxEntry("t1", Prefix1)>>
    /\ outcome.state = "fulfilled"
    /\ outcome.value.o["addedTxs"].a[1].o["hash"] = Str("t2")
    /\ outcome.value.o["addedTxs"].a[2].o["hash"] = Str("t1")

\* the transport has rejected the request of the current call
TransportFailed == raw.state = "rejected"

\* C12: when the transport rejects the request, every promise down to the
\* caller's is rejected with that very error, no handler has produced a value
\* from a response, and the call ends rejected with the transport's error.
C12_TransportFailurePropagates ==
    TransportFailed =>
        /\ raw.error \in NetworkErrors
        /\ mid \in {Pending, raw}
        /\ outcome \in {Pending, raw}
        /\ rawAfter = Undef
        /\ pc = "done" => outcome = raw
        /\ (pc = "posted" /\ op \in RpcOps) => mid = raw

\* transaction, which goes through _post and a rule of its own, has ended
\* with the transport's connection failure
C12_Witness ==
    /\ pc = "done"
    /\ op = "transaction"
    /\ TransportFailed
    /\ raw.error.message = "ECONNREFUSED"
    /\ mid = raw
    /\ outcome = raw

\* the body of the one request issued for the current call
RequestBody == requests[1].body

\* C13: every request blocksDetailed issues carries a blockCount of at most
\* 100, and of exactly 100 when the caller's options give no blockCount.
C13_BlockCountCapped ==
    (InCall /\ op = "blocksDetailed" /\ requests # <<>>) =>
        /\ RequestBody.o["blockCount"].n <= 100
        /\ Get(args[1], "blockCount") = Undef => RequestBody.o["blockCount"] = Num(100)

ConfigFields == {"host", "port", "ssl", "timeout", "keepAlive", "userAgent"}

\* C14: no step of any operation call, whether it ends in a value, a thrown
\* error or a rejection, changes host, port, ssl, timeout, keepAlive or
\* userAgent of the client, nor adds or removes a field of it.
C14_ConfigurationFixed ==
    [][/\ DOMAIN config'.o = DOMAIN config.o
       /\ \A f \in ConfigFields : config'.o[f] = config.o[f]]_vars

\* a call on the client built with every option given has been rejected, and
\* the client still holds the options, which the request was built from
C14_Witness ==
    /\ pc = "done"
    /\ outcome.state = "rejected"
    /\ ctorOpts = CustomOpts
    /\ config = CustomOpts
    /\ requests[1].timeout = Num(500)
    /\ requests[1].forever = Bool(FALSE)

\* the outcome of operation o called alone, when the transport settles its
\* request with s: _post's handler for a JSON-RPC operation, then the
\* operation's own handler if it has one, a rejection skipping both
AloneOutcome(o, s) ==
    LET m == IF o \in RpcOps /\ s.state = "fulfilled" THEN postThen(s.value).out ELSE s
    IN  IF o \in RuleOps /\ m.state = "fulfilled" THEN Rule(o, m.value).out ELSE m

\* C15: with several calls in flight on one client and the responses
\* delivered in any order, each finished call has issued exactly the request
\* its own operation builds from its own arguments, and its outcome is the
\* one its operation yields alone for the settlement of its own request (or
\* its own thrown argument error).
C15_ConcurrentOutcomesAreOwn ==
    \A c \in Callers :
        calls[c].pc = "done" =>
            IF calls[c].raw = Pending
            THEN /\ calls[c].outcome = Invoke(calls[c].op, calls[c].args)
                 /\ calls[c].requests = <<>>
            ELSE /\ calls[c].outcome = AloneOutcome(calls[c].op, calls[c].raw)
                 /\ calls[c].requests = <<Invoke(calls[c].op, calls[c].args).request>>

\* caller 2's poolChanges was answered first and its handler has not run
\* yet; caller 1's transaction was answered after it with an RPC error and
\* has ended with that error
C15_Witness ==
    /\ delivered = <<2, 1>>
    /\ calls[2].op = "poolChanges"
    /\ calls[2].pc = "responded"
    /\ calls[2].raw.state = "fulfilled"
    /\ calls[1].op = "transaction"
    /\ calls[1].pc = "done"
    /\ calls[1].raw.state = "fulfilled"
    /\ calls[1].outcome = Rejected(Error("boom"))

\* C16: from the moment a call has passed argument validation until the
\* caller has its outcome, exactly one request has been handed to the
\* transport for it: none is added after a transport failure, an RPC error
\* or a status error; a call that threw on its arguments has issued none.
C16_ExactlyOneRequest ==
    InCall =>
        IF outcome.state = "thrown" THEN requests = <<>>
        ELSE /\ Len(requests) = 1
             /\ requests[1] = Invoke(op, args).request

\* a status-checked call has ended with its status error after one request
C16_Witness ==
    /\ pc = "done"
    /\ op = "transactionsStatus"
    /\ outcome = Rejected(Error("Status is not OK"))
    /\ Len(requests) = 1
    /\ requests[1].method = "POST"

\* the documented defaults of the configuration fields
DocumentedDefaults ==
    [host |-> Str("127.0.0.1"), port |-> Num(12898), timeout |-> Num(2000),
     ssl |-> Bool(FALSE), keepAlive |-> Bool(TRUE)]

\* the caller's options give field f
Supplied(f) == ctorOpts.t = "object" /\ f \in DOMAIN ctorOpts.o

\* C17: once the constructor has returned, each of host, port, timeout, ssl
\* and keepAlive holds the value the caller supplied for it, and its
\* documented default when the caller supplied none; a supplied keepAlive of
\* false, timeout of 0 or port of 0 is the value held.
C17_SuppliedValueOrDefault ==
    config # EmptyObj =>
        \A f \in DOMAIN DocumentedDefaults :
            config.o[f] = IF Supplied(f) THEN ctorOpts.o[f] ELSE DocumentedDefaults[f]

\* the operations whose rule the claim of purity names
PureOps == {"blocksLite", "poolChanges", "transaction", "rawBlocks"} \cup StatusOps

\* the settlement the rule of the current call was applied to
RuleUpstream == IF op \in RpcOps THEN mid ELSE raw
\* the rule of the current call has run on a value
RuleRan == pc = "done" /\ op \in PureOps /\ RuleUpstream.state = "fulfilled"
\* the value the rule was handed, as it was then and as it is now
RuleArgument == RuleUpstream.value
RuleArgumentNow == IF op \in RpcOps THEN Get(rawAfter, "result") ELSE rawAfter

\* C18: once the rule of blocksLite, poolChanges, transaction, rawBlocks or
\* a status-checked operation has run, the response value it was handed is
\* as the transport returned it, and the rule applied to it once more
\* yields the outcome the caller got.
C18_RulesArePure ==
    RuleRan =>
        /\ RuleArgumentNow = RuleArgument
        /\ Rule(op, RuleArgumentNow).out = outcome

\* the operations that return the transport's promise as it is
GetOps == {"fee", "height", "info", "peers"}
RawPassOps == {"blocksDetailed", "randomOutputs", "sendRawTransaction"}

\* scheme, host and port of the daemon, for each of the two clients
UriBase ==
    IF ctorOpts = Undef THEN "http://127.0.0.1:12898/" ELSE "https://10.0.0.5:8080/"

\* C19: fee, height, info and peers issue one GET without a body to the path
\* of their own name; blocksDetailed, randomOutputs and sendRawTransaction
\* issue one POST whose body is not a JSON-RPC envelope and which does not go
\* to json_rpc; each of the seven is fulfilled with exactly the JSON value
\* the transport returned, whatever that value's status.
C19_PassThroughOperations ==
    /\ (InCall /\ op \in GetOps) =>
        /\ Len(requests) = 1
        /\ requests[1].method = "GET"
        /\ requests[1].uri = UriBase \o op
        /\ requests[1].body = Undef
    /\ (InCall /\ op \in RawPassOps /\ outcome.state # "thrown") =>
        /\ Len(requests) = 1
        /\ requests[1].method = "POST"
        /\ requests[1].uri # UriBase \o "json_rpc"
        /\ requests[1].body.t = "object"
        /\ DOMAIN requests[1].body.o \cap {"jsonrpc", "method", "params"} = {}
    /\ (Answered /\ op \in GetOps \cup RawPassOps) => outcome = Fulfilled(raw.value)

\* sendRawTransaction answered with a status of failed resolves with it
C19_Witness ==
    /\ Answered
    /\ op = "sendRawTransaction"
    /\ requests[1].method = "POST"
    /\ raw.value = Obj([status |-> Str("failed")])
    /\ outcome = Fulfilled(Obj([status |-> Str("failed")]))

\* v is a number, or a string that reads as a number from end to end
IsNumeric(v) ==
    \/ v.t = "number"
    \/ v.t = "string" /\ TrimLeft(v.s) # "" /\ ~IsNaNValue(ToNumber(v))

\* C20: randomOutputs called with a mixin that is missing or is not a
\* numeric value ends with a thrown Error and no request; called with an
\* array of amounts and a numeric mixin it issues a request whose body holds
\* the integer value of mixin as outs_count and the caller's amounts.
C20_MixinValidated ==
    (InCall /\ op = "randomOutputs") =>
        IF args[2] = Undef \/ ~IsNumeric(args[2])
        THEN /\ outcome.state = "thrown"
             /\ outcome.error.name = "Error"
             /\ requests = <<>>
        ELSE args[1].t = "array" =>
                /\ Len(requests) = 1
                /\ RequestBody.o["outs_count"] = ToNumber(args[2])
                /\ RequestBody.o["amounts"] = args[1]

\* the defaults of walletSyncData's options
WalletDefaults ==
    [startHeight |-> Num(0), startTimestamp |-> Num(0),
     blockHashCheckpoints |-> Arr(<<>>), skipCoinbaseTransactions |-> Bool(FALSE)]

\* the options of the current call give field f
OptionGiven(f) == args[1].t = "object" /\ f \in DOMAIN args[1].o

\* C21: walletSyncData never throws on its options; it issues one POST whose
\* body has exactly the fields startHeight, startTimestamp,
\* blockHashCheckpoints and skipCoinbaseTransactions, each holding the
\* caller's value when the options give it and otherwise 0, 0, the empty
\* list and false; a given startHeight of 0 or skipCoinbaseTransactions of
\* false is sent as given.
C21_WalletSyncDataBody ==
    (InCall /\ op = "walletSyncData") =>
        /\ outcome.state # "thrown"
        /\ Len(requests) = 1
        /\ requests[1].method = "POST"
        /\ RequestBody.t = "object"
        /\ DOMAIN RequestBody.o = DOMAIN WalletDefaults
        /\ \A f \in DOMAIN WalletDefaults :
            RequestBody.o[f] = IF OptionGiven(f) THEN args[1].o[f] ELSE WalletDefaults[f]

\* walletSyncData called with a start height of 0, a timestamp, one
\* checkpoint and skipCoinbaseTransactions of false has sent them as given
C21_Witness ==
    /\ InCall
    /\ op = "walletSyncData"
    /\ args[1] = Obj([startHeight |-> Num(0), startTimestamp |-> Num(9),
                      blockHashCheckpoints |-> Arr(<<Str("h1")>>),
                      skipCoinbaseTransactions |-> Bool(FALSE)])
    /\ Len(requests) = 1
    /\ RequestBody = args[1]

=============================================================================
